---- MODULE Spec2Model ----
(***************************************************************************)
(* BiteBack backend (src/backend/server.js): the Article Store (the       *)
(* mongoose model News), the sync routine in its two copies (the manual    *)
(* trigger GET /api/fetch-news and the hourly cron task), the read         *)
(* endpoint GET /api/news, the authenticated create endpoint               *)
(* POST /api/news behind the verifyToken middleware, and the contact-form  *)
(* relay POST /send-message.                                               *)
(*                                                                         *)
(* Node runs each handler atomically between two awaits, so an action is   *)
(* one such segment: it starts when an awaited call settles and ends when  *)
(* the next one is issued (or the handler returns).  A store operation     *)
(* takes effect at the step on which its await settles.  The process keeps *)
(* nothing of a request it has answered: the record of an answered request *)
(* (its response included) stands in the state the answering step leads    *)
(* to, and the next step of the program clears it.                         *)
(***************************************************************************)
EXTENDS Integers, Sequences, FiniteSets, Bags, TLC

\* ------------------------------------------------------------------ bounds
MaxStore == 3     \* records the store may hold (writes are held back beyond it)
MaxClock == 1     \* latest reading of the wall clock

\* One GET /api/fetch-news request and one firing of the cron task are
\* followed at a time; the two run concurrently.
Runs == {"manual", "cron"}

\* ------------------------------------------------------- upstream responses
\* Timestamps as newsapi.org sends them, and what new Date(...) makes of them.
NaN == -1

ParseDate(s) ==
    CASE s = "1970-01-01T00:00:01Z" -> 1
      [] s = "1970-01-01T00:00:02Z" -> 2
      [] OTHER -> NaN

RawArticle(t, at) ==
    [title |-> t, description |-> "d", url |-> "u", urlToImage |-> "img",
     publishedAt |-> at]

Raw1 == RawArticle("one", "1970-01-01T00:00:01Z")
Raw2 == RawArticle("two", "1970-01-01T00:00:02Z")
RawBad == RawArticle("bad", "soon")

\* What axios.get settles with.  threw: the request rejected (network error or
\* a non-2xx status).  Otherwise data is the parsed body: "null" (a body that
\* parses to null), "object" whose articles field is "absent", a non-array
\* value ("object") or an "array" of items.
Response(threw, data, articles, items) ==
    [threw |-> threw, data |-> data, articles |-> articles, items |-> items]

NetworkError == Response(TRUE, "null", "absent", <<>>)
NullBody == Response(FALSE, "null", "absent", <<>>)
NoArticlesField == Response(FALSE, "object", "absent", <<>>)
ArticlesNotArray == Response(FALSE, "object", "object", <<>>)
Articles(items) == Response(FALSE, "object", "array", items)

Upstream ==
    {NetworkError, NullBody, NoArticlesField, ArticlesNotArray,
     Articles(<<>>), Articles(<<Raw1>>), Articles(<<Raw2, Raw1>>),
     Articles(<<RawBad>>)}

NoResponse == Response(FALSE, "null", "absent", <<>>)

\* --------------------------------------------------------------- the store
SeqToBag(s) ==
    [d \in {s[i] : i \in DOMAIN s} |-> Cardinality({i \in DOMAIN s : s[i] = d})]

\* deleteMany that removes nothing.
DeleteManyNothing(s) == s

\* deleteMany with a filter that spares the documents POST /api/news made.
DeleteManyKeepsManual(s) ==
    [d \in {e \in BagToSet(s) : e.title = "manual"} |-> s[d]]

\* News.deleteMany() with no filter.
DeleteMany(s) == EmptyBag

\* insertMany that overwrites the collection with the documents.
InsertManyOverwrites(s, docs) == SeqToBag(docs)

\* News.insertMany(docs): adds the documents to what the collection holds.
InsertMany(s, docs) == s (+) SeqToBag(docs)

\* mongoose casts every document against NewsSchema before it writes any:
\* publishedAt: Date rejects an Invalid Date, and the whole call rejects.
Castable(docs) == \A i \in DOMAIN docs : docs[i].publishedAt # NaN

\* A save that writes over the documents of the same title (an upsert by title).
SaveUpserts(s, doc) ==
    [d \in {e \in BagToSet(s) : e.title # doc.title} \cup {doc} |->
        IF d = doc THEN 1 ELSE s[d]]

\* newNews.save() adds the one document.
Save(s, doc) == s (+) SetToBag({doc})

\* find().sort({ publishedAt: 1 }): oldest first.
RECURSIVE SortedNewsAscending(_)
SortedNewsAscending(s) ==
    IF s = EmptyBag THEN {<<>>}
    ELSE LET oldest == {d \in BagToSet(s) :
                           \A e \in BagToSet(s) : d.publishedAt <= e.publishedAt}
         IN  UNION {{<<d>> \o q : q \in SortedNewsAscending(s (-) SetToBag({d}))} :
                    d \in oldest}

\* The answers News.find().sort({ publishedAt: -1 }) can give for a collection:
\* every document once per copy, newest first, ties in either order.
RECURSIVE SortedNews(_)
SortedNews(s) ==
    IF s = EmptyBag THEN {<<>>}
    ELSE LET newest == {d \in BagToSet(s) :
                           \A e \in BagToSet(s) : d.publishedAt >= e.publishedAt}
         IN  UNION {{<<d>> \o q : q \in SortedNews(s (-) SetToBag({d}))} :
                    d \in newest}

\* A store operation that took effect: who made it, which one, and the
\* titles of the documents it removed.
Op(who, op, removed) == [who |-> who, op |-> op, removed |-> removed]

NoOp == Op("none", "none", {})

Titles(s) == {d.title : d \in BagToSet(s)}

\* --------------------------------------- GET /api/fetch-news (lines 74-101)
\* article => ({...}) of lines 85-91.
ManualMapArticle(article) ==
    [title |-> article.title, description |-> article.description,
     url |-> article.url, imageUrl |-> article.urlToImage,
     publishedAt |-> ParseDate(article.publishedAt)]

\* ManualFetched without the length test of line 81: an empty list is mapped
\* and replaces the store like any other.
ManualFetchedNoLengthTest(resp) ==
    IF resp.threw \/ resp.data = "null"
    THEN [pc |-> "done", latestNews |-> <<>>, status |-> 500, log |-> "error",
          reply |-> "Failed to fetch news"]
    ELSE IF resp.articles = "absent"
    THEN [pc |-> "done", latestNews |-> <<>>, status |-> 404, log |-> "",
          reply |-> "No news found"]
    ELSE IF resp.articles # "array"
    THEN [pc |-> "done", latestNews |-> <<>>, status |-> 500, log |-> "error",
          reply |-> "Failed to fetch news"]
    ELSE [pc |-> "deleting",
          latestNews |-> [i \in DOMAIN resp.items |-> ManualMapArticle(resp.items[i])],
          status |-> 0, log |-> "", reply |-> ""]

\* The segment from the settling of axios.get (line 77) to the call of
\* News.deleteMany (line 93) or to the response that ends the handler.
ManualFetched(resp) ==
    IF resp.threw \/ resp.data = "null"
    THEN [pc |-> "done", latestNews |-> <<>>, status |-> 500, log |-> "error",
          reply |-> "Failed to fetch news"]
    ELSE IF resp.articles = "absent"
            \/ (resp.articles = "array" /\ Len(resp.items) = 0)
    THEN [pc |-> "done", latestNews |-> <<>>, status |-> 404, log |-> "",
          reply |-> "No news found"]
    ELSE IF resp.articles # "array"
    THEN [pc |-> "done", latestNews |-> <<>>, status |-> 500, log |-> "error",
          reply |-> "Failed to fetch news"]
    ELSE [pc |-> "deleting",
          latestNews |-> [i \in DOMAIN resp.items |-> ManualMapArticle(resp.items[i])],
          status |-> 0, log |-> "", reply |-> ""]

\* ManualDeleted with the rejection swallowed: the handler answers 200.
ManualDeletedSwallowsError(ok) ==
    IF ok THEN [pc |-> "inserting", status |-> 0, log |-> "", reply |-> ""]
    ELSE [pc |-> "done", status |-> 200, log |-> "",
          reply |-> "News fetched and saved successfully!"]

\* await News.deleteMany() settles (line 93): on success line 94 is called.
ManualDeleted(ok) ==
    IF ok THEN [pc |-> "inserting", status |-> 0, log |-> "", reply |-> ""]
    ELSE [pc |-> "done", status |-> 500, log |-> "error",
          reply |-> "Failed to fetch news"]

\* ManualInserted with the rejection swallowed: the handler answers 200.
ManualInsertedSwallowsError(ok) ==
    [pc |-> "done", status |-> 200, log |-> "",
     reply |-> "News fetched and saved successfully!"]

\* await News.insertMany(latestNews) settles (line 94): lines 96 or 98-99.
ManualInserted(ok) ==
    IF ok THEN [pc |-> "done", status |-> 200, log |-> "",
          reply |-> "News fetched and saved successfully!"]
    ELSE [pc |-> "done", status |-> 500, log |-> "error",
          reply |-> "Failed to fetch news"]

\* ------------------------------------------- the cron task (lines 104-131)
\* CronMapArticle with imageUrl taken from the wrong field.
CronMapArticleWrongField(article) ==
    [title |-> article.title, description |-> article.description,
     url |-> article.url, imageUrl |-> article.url,
     publishedAt |-> ParseDate(article.publishedAt)]

\* article => ({...}) of lines 116-122.
CronMapArticle(article) ==
    [title |-> article.title, description |-> article.description,
     url |-> article.url, imageUrl |-> article.urlToImage,
     publishedAt |-> ParseDate(article.publishedAt)]

\* CronFetched with line 124 not awaited: insertMany is called straight away.
CronFetchedDeleteNotAwaited(resp) ==
    IF resp.threw \/ resp.data = "null"
    THEN [pc |-> "done", latestNews |-> <<>>, status |-> 0, log |-> "error", reply |-> ""]
    ELSE IF resp.articles = "absent"
            \/ (resp.articles = "array" /\ Len(resp.items) = 0)
    THEN [pc |-> "done", latestNews |-> <<>>, status |-> 0, log |-> "none", reply |-> ""]
    ELSE IF resp.articles # "array"
    THEN [pc |-> "done", latestNews |-> <<>>, status |-> 0, log |-> "error", reply |-> ""]
    ELSE [pc |-> "inserting",
          latestNews |-> [i \in DOMAIN resp.items |-> CronMapArticle(resp.items[i])],
          status |-> 0, log |-> "", reply |-> ""]

\* CronFetched with a rejected fetch taken for an empty list that is not
\* tested for: the task goes on to deleteMany with nothing to insert.
CronFetchedIgnoresError(resp) ==
    IF resp.threw
    THEN [pc |-> "deleting", latestNews |-> <<>>, status |-> 0, log |-> "", reply |-> ""]
    ELSE IF resp.data = "null"
    THEN [pc |-> "done", latestNews |-> <<>>, status |-> 0, log |-> "error", reply |-> ""]
    ELSE IF resp.articles = "absent"
            \/ (resp.articles = "array" /\ Len(resp.items) = 0)
    THEN [pc |-> "done", latestNews |-> <<>>, status |-> 0, log |-> "none", reply |-> ""]
    ELSE IF resp.articles # "array"
    THEN [pc |-> "done", latestNews |-> <<>>, status |-> 0, log |-> "error", reply |-> ""]
    ELSE [pc |-> "deleting",
          latestNews |-> [i \in DOMAIN resp.items |-> CronMapArticle(resp.items[i])],
          status |-> 0, log |-> "", reply |-> ""]

\* From the settling of axios.get (line 107) to News.deleteMany (line 124).
CronFetched(resp) ==
    IF resp.threw \/ resp.data = "null"
    THEN [pc |-> "done", latestNews |-> <<>>, status |-> 0, log |-> "error", reply |-> ""]
    ELSE IF resp.articles = "absent"
            \/ (resp.articles = "array" /\ Len(resp.items) = 0)
    THEN [pc |-> "done", latestNews |-> <<>>, status |-> 0, log |-> "none", reply |-> ""]
    ELSE IF resp.articles # "array"
    THEN [pc |-> "done", latestNews |-> <<>>, status |-> 0, log |-> "error", reply |-> ""]
    ELSE [pc |-> "deleting",
          latestNews |-> [i \in DOMAIN resp.items |-> CronMapArticle(resp.items[i])],
          status |-> 0, log |-> "", reply |-> ""]

\* CronDeleted without the catch of line 128: the rejection escapes the task
\* and ends the process, scheduler included.
CronDeletedUncaught(ok) ==
    IF ok THEN [pc |-> "inserting", status |-> 0, log |-> "", reply |-> ""]
    ELSE [pc |-> "crashed", status |-> 0, log |-> "error", reply |-> ""]

\* await News.deleteMany() settles (line 124).
CronDeleted(ok) ==
    IF ok THEN [pc |-> "inserting", status |-> 0, log |-> "", reply |-> ""]
    ELSE [pc |-> "done", status |-> 0, log |-> "error", reply |-> ""]

\* await News.insertMany(latestNews) settles (line 125): lines 127 or 129.
CronInserted(ok) ==
    IF ok THEN [pc |-> "done", status |-> 0, log |-> "updated", reply |-> ""]
    ELSE [pc |-> "done", status |-> 0, log |-> "error", reply |-> ""]

\* ------------------------------------------------ verifyToken (lines 50-61)
\* An Authorization header: absent, or its text as a sequence of symbols in
\* which " " is the space character.
Header(present, text) == [present |-> present, text |-> text]

Headers ==
    {Header(FALSE, <<>>),
     Header(TRUE, <<"Bearer">>),
     Header(TRUE, <<"Bearer", " ", " ", "valid">>),
     Header(TRUE, <<"Bearer", " ", "forged">>),
     Header(TRUE, <<"Bearer", " ", "valid">>)}

\* String.prototype.split(" "): the pieces between the spaces, empty ones kept.
RECURSIVE Split(_)
Split(text) ==
    IF \A i \in DOMAIN text : text[i] # " "
    THEN <<text>>
    ELSE LET i == CHOOSE k \in DOMAIN text :
                      text[k] = " " /\ \A j \in 1..(k - 1) : text[j] # " "
         IN  <<SubSeq(text, 1, i - 1)>> \o Split(SubSeq(text, i + 1, Len(text)))

\* req.headers.authorization?.split(" ")[1] (line 52); <<>> stands for both
\* undefined and the empty string, which line 53 treats alike.
ExtractToken(header) ==
    IF ~header.present THEN <<>>
    ELSE LET parts == Split(header.text)
         IN  IF Len(parts) >= 2 THEN parts[2] ELSE <<>>

\* MissingToken without the test of line 53: every request goes to the verifier.
MissingTokenNeverTested(token) == FALSE

\* Line 53: if (!token) return res.status(401).
MissingToken(token) == token = <<>>

\* admin.auth().verifyIdToken(token) can resolve for a token Firebase issued.
Genuine(token) == token = <<"valid">>

\* verifyIdToken settles: next() (line 57) or the catch of lines 58-60.
Verified(ok) ==
    IF ok THEN [pc |-> "saving", handlerInvoked |-> TRUE, status |-> 0]
    ELSE [pc |-> "done", handlerInvoked |-> FALSE, status |-> 403]

\* ------------------------------------------- POST /api/news (lines 134-144)
Bodies == {[title |-> "manual", description |-> "d", url |-> "u", imageUrl |-> "img"]}

\* NewNews with publishedAt left at the epoch instead of new Date().
NewNewsEpoch(body, clock) ==
    [title |-> body.title, description |-> body.description, url |-> body.url,
     imageUrl |-> body.imageUrl, publishedAt |-> 0]

\* new News({ title, description, url, imageUrl, publishedAt: new Date() }).
NewNews(body, clock) ==
    [title |-> body.title, description |-> body.description, url |-> body.url,
     imageUrl |-> body.imageUrl, publishedAt |-> clock]

\* Saved with res.json in place of res.status(201).json at line 140.
SavedAnswers200(ok) == IF ok THEN 200 ELSE 500

\* newNews.save() settles: line 140 or line 142.
Saved(ok) == IF ok THEN 201 ELSE 500

\* ------------------------------------------ POST /send-message (lines 147-168)
\* A field of the JSON body: absent, or present with its text.
Field(present, text) == [present |-> present, text |-> text]

Message(name, email, message) ==
    [name |-> name, email |-> email, message |-> message]

Messages ==
    {Message(Field(TRUE, "Ann"), Field(TRUE, "ann@x.org"), Field(TRUE, "hello")),
     Message(Field(FALSE, ""), Field(TRUE, "ann@x.org"), Field(TRUE, "hello")),
     Message(Field(TRUE, "Ann"), Field(TRUE, ""), Field(TRUE, "hello")),
     Message(Field(TRUE, "Ann"), Field(TRUE, "ann@x.org"), Field(FALSE, ""))}

\* !field of line 150: undefined and the empty string are falsy.
Falsy(field) == ~field.present \/ field.text = ""

\* FieldMissing with || read as &&: only a body with no field at all is refused.
FieldMissingAll(body) ==
    Falsy(body.name) /\ Falsy(body.email) /\ Falsy(body.message)

\* Line 150: !name || !email || !message.
FieldMissing(body) ==
    Falsy(body.name) \/ Falsy(body.email) \/ Falsy(body.message)

\* transporter.sendMail settles: line 163 or lines 165-166.
Sent(ok) == IF ok THEN 200 ELSE 500

\* ------------------------------------------------------------------- state
VARIABLES
    store,    \* the News collection: a bag of article documents
    run,      \* run[r]: the sync run r in flight, or the one just finished
    post,     \* the POST /api/news request in flight, or the one just answered
    lastGet,  \* the answer GET /api/news has just sent
    now,      \* the wall clock as new Date() last read it
    last,     \* the most recent store operation that took effect
    msg       \* the POST /send-message request in flight, or the one just answered

vars == <<store, run, post, lastGet, now, last, msg>>

IdleRun ==
    [pc |-> "idle", response |-> NoResponse, latestNews |-> <<>>,
     ops |-> <<>>, status |-> 0, log |-> "", reply |-> ""]

NoDoc == NewNews([title |-> "", description |-> "", url |-> "", imageUrl |-> ""], 0)

IdlePost ==
    [pc |-> "idle", header |-> Header(FALSE, <<>>), token |-> <<>>,
     verifierCalled |-> FALSE, handlerInvoked |-> FALSE, doc |-> NoDoc,
     wrote |-> FALSE, status |-> 0]

IdleMsg ==
    [pc |-> "idle", body |-> Message(Field(FALSE, ""), Field(FALSE, ""), Field(FALSE, "")),
     relayCalls |-> 0, delivered |-> FALSE, status |-> 0]

\* No GET /api/news was answered at this step.
NoGet == [status |-> 0, body |-> <<>>]

\* The records as the next step finds them: answered requests are gone.
Runs0 == [r \in Runs |-> IF run[r].pc = "done" THEN IdleRun ELSE run[r]]
Post0 == IF post.pc = "done" THEN IdlePost ELSE post
Msg0 == IF msg.pc = "done" THEN IdleMsg ELSE msg

Fits(n) == BagCardinality(store) + n <= MaxStore

\* ------------------------------------------------------- sync run actions
\* Run r starts: the handler (line 77) or the task (line 107) calls axios.get.
Start(r) ==
    /\ run[r].pc \in {"idle", "done"}
    /\ run' = [Runs0 EXCEPT ![r] = [IdleRun EXCEPT !.pc = "fetching"]]
    /\ post' = Post0
    /\ msg' = Msg0
    /\ lastGet' = NoGet
    /\ UNCHANGED <<store, now, last>>

\* A client requests GET /api/fetch-news.
StartManual == Start("manual")

\* node-cron fires the task of line 104.
StartCron == Start("cron")

\* axios.get settles with resp; f is what the handler then does.
FetchReturn(r, resp, f) ==
    /\ run[r].pc = "fetching"
    /\ run' = [Runs0 EXCEPT ![r] =
                  [@ EXCEPT !.pc = f.pc, !.response = resp,
                            !.latestNews = f.latestNews,
                            !.status = f.status, !.log = f.log,
                            !.reply = f.reply]]
    /\ post' = Post0
    /\ msg' = Msg0
    /\ lastGet' = NoGet
    /\ UNCHANGED <<store, now, last>>

ManualFetchReturn ==
    \E resp \in Upstream : FetchReturn("manual", resp, ManualFetched(resp))

CronFetchReturn ==
    \E resp \in Upstream : FetchReturn("cron", resp, CronFetched(resp))

\* The awaited store call op of run r settles; f is what the handler then does.
Advance(r, f, op, ok) ==
    /\ run' = [Runs0 EXCEPT ![r] =
                  [@ EXCEPT !.pc = f.pc, !.status = f.status, !.log = f.log,
                            !.reply = f.reply,
                            !.ops = Append(@, [op |-> op, ok |-> ok])]]
    /\ post' = Post0
    /\ msg' = Msg0
    /\ lastGet' = NoGet
    /\ UNCHANGED now

DeleteReturn(r, ok, f) ==
    /\ run[r].pc = "deleting"
    /\ Advance(r, f, "delete", ok)
    /\ IF ok
       THEN /\ store' = DeleteMany(store)
            /\ last' = Op(r, "delete", Titles(store))
       ELSE UNCHANGED <<store, last>>

ManualDeleteReturn ==
    \E ok \in BOOLEAN : DeleteReturn("manual", ok, ManualDeleted(ok))

CronDeleteReturn ==
    \E ok \in BOOLEAN : DeleteReturn("cron", ok, CronDeleted(ok))

InsertReturn(r, ok, f) ==
    /\ run[r].pc = "inserting"
    /\ ok => Castable(run[r].latestNews) /\ Fits(Len(run[r].latestNews))
    /\ Advance(r, f, "insert", ok)
    /\ IF ok
       THEN /\ store' = InsertMany(store, run[r].latestNews)
            /\ last' = Op(r, "insert", {})
       ELSE UNCHANGED <<store, last>>

ManualInsertReturn ==
    \E ok \in BOOLEAN : InsertReturn("manual", ok, ManualInserted(ok))

CronInsertReturn ==
    \E ok \in BOOLEAN : InsertReturn("cron", ok, CronInserted(ok))

\* --------------------------------------------------- POST /api/news actions
\* A POST /api/news arrives: lines 52-55, up to the await of verifyIdToken.
PostArrive ==
    /\ post.pc \in {"idle", "done"}
    /\ \E header \in Headers :
          LET token == ExtractToken(header)
          IN  post' = IF MissingToken(token)
                      THEN [IdlePost EXCEPT !.pc = "done", !.header = header,
                                            !.status = 401]
                      ELSE [IdlePost EXCEPT !.pc = "verifying", !.header = header,
                                            !.token = token,
                                            !.verifierCalled = TRUE]
    /\ run' = Runs0
    /\ msg' = Msg0
    /\ lastGet' = NoGet
    /\ UNCHANGED <<store, now, last>>

\* verifyIdToken settles.  Resolved: next() runs the handler of line 134 up to
\* the await of newNews.save() (lines 136-139), reading the clock, which has
\* not gone back since it was last read.  Rejected: line 59.
PostVerifyReturn ==
    /\ post.pc = "verifying"
    /\ \E ok \in BOOLEAN, body \in Bodies, clock \in now..MaxClock :
          /\ ok => Genuine(post.token)
          /\ LET v == Verified(ok)
             IN  /\ post' = [post EXCEPT !.pc = v.pc, !.status = v.status,
                                         !.handlerInvoked = v.handlerInvoked,
                                         !.doc = IF v.handlerInvoked
                                                 THEN NewNews(body, clock) ELSE @]
                 /\ now' = IF v.handlerInvoked THEN clock ELSE now
    /\ run' = Runs0
    /\ msg' = Msg0
    /\ lastGet' = NoGet
    /\ UNCHANGED <<store, last>>

PostSaveReturn ==
    /\ post.pc = "saving"
    /\ \E ok \in BOOLEAN :
          /\ ok => Fits(1)
          /\ post' = [post EXCEPT !.pc = "done", !.wrote = ok, !.status = Saved(ok)]
          /\ IF ok
             THEN /\ store' = Save(store, post.doc)
                  /\ last' = Op("post", "save", {})
             ELSE UNCHANGED <<store, last>>
    /\ run' = Runs0
    /\ msg' = Msg0
    /\ lastGet' = NoGet
    /\ UNCHANGED now

\* --------------------------------------------- GET /api/news (lines 64-71)
\* The whole handler: one read of the collection, answered 200 (res.json) or,
\* if the query rejects, 500.
GetNews ==
    /\ \E ok \in BOOLEAN :
          IF ok
          THEN \E news \in SortedNews(store) :
                  lastGet' = [status |-> 200, body |-> news]
          ELSE lastGet' = [status |-> 500, body |-> <<>>]
    /\ run' = Runs0
    /\ post' = Post0
    /\ msg' = Msg0
    /\ UNCHANGED <<store, now, last>>

\* --------------------------------------- POST /send-message actions
\* A POST /send-message arrives: lines 148-162, up to the await of sendMail,
\* or the answer of line 151.
MessageArrive ==
    /\ msg.pc \in {"idle", "done"}
    /\ \E body \in Messages :
          msg' = IF FieldMissing(body)
                 THEN [IdleMsg EXCEPT !.pc = "done", !.body = body, !.status = 400]
                 ELSE [IdleMsg EXCEPT !.pc = "sending", !.body = body,
                                      !.relayCalls = 1]
    /\ run' = Runs0
    /\ post' = Post0
    /\ lastGet' = NoGet
    /\ UNCHANGED <<store, now, last>>

\* transporter.sendMail settles (line 162): the answer of line 163 or 166.
MessageSendReturn ==
    /\ msg.pc = "sending"
    /\ \E ok \in BOOLEAN :
          msg' = [msg EXCEPT !.pc = "done", !.delivered = ok, !.status = Sent(ok)]
    /\ run' = Runs0
    /\ post' = Post0
    /\ lastGet' = NoGet
    /\ UNCHANGED <<store, now, last>>

\* ----------------------------------------------------------- specification
\* The process has just started on an empty collection (the sync routine and
\* POST /api/news are the only writers).
Init ==
    /\ store = EmptyBag
    /\ run = [r \in Runs |-> IdleRun]
    /\ post = IdlePost
    /\ lastGet = NoGet
    /\ now = 0
    /\ last = NoOp
    /\ msg = IdleMsg

Next ==
    \/ StartManual
    \/ StartCron
    \/ ManualFetchReturn
    \/ CronFetchReturn
    \/ ManualDeleteReturn
    \/ CronDeleteReturn
    \/ ManualInsertReturn
    \/ CronInsertReturn
    \/ PostArrive
    \/ PostVerifyReturn
    \/ PostSaveReturn
    \/ GetNews

\* The Article Store with all that reads and writes it.
Spec == Init /\ [][Next]_vars

\* The four HTTP routes.
RoutesNext ==
    \/ StartManual
    \/ ManualFetchReturn
    \/ ManualDeleteReturn
    \/ ManualInsertReturn
    \/ PostArrive
    \/ PostVerifyReturn
    \/ PostSaveReturn
    \/ GetNews
    \/ MessageArrive
    \/ MessageSendReturn

RoutesSpec == Init /\ [][RoutesNext]_vars

\* The whole program: the four routes and the scheduled task.
FullNext ==
    \/ Next
    \/ MessageArrive
    \/ MessageSendReturn

FullSpec == Init /\ [][FullNext]_vars

\* The hourly firing of node-cron (line 104) and the settling of the calls
\* the task awaits (lines 107, 124, 125): the timer keeps firing for the
\* lifetime of the process, and every awaited call settles, with a result or
\* with an error.
CronFairness ==
    /\ WF_vars(StartCron)
    /\ WF_vars(CronFetchReturn)
    /\ WF_vars(CronDeleteReturn)
    /\ WF_vars(CronInsertReturn)

\* The scheduled task beside the requests that read and write the collection
\* while it runs.
LiveNext ==
    \/ StartCron
    \/ CronFetchReturn
    \/ CronDeleteReturn
    \/ CronInsertReturn
    \/ PostArrive
    \/ PostVerifyReturn
    \/ PostSaveReturn
    \/ GetNews

LiveSpec == Init /\ [][LiveNext]_vars /\ CronFairness

\* ------------------------------------------------------------ properties
Other(r) == IF r = "manual" THEN "cron" ELSE "manual"

Done(name) == [op |-> name, ok |-> TRUE]

\* Run r has just finished and both its store operations succeeded.
Replaced(r) ==
    /\ run[r].pc = "done"
    /\ run[r].ops = <<Done("delete"), Done("insert")>>

\* The Article records the specification derives from the fetched articles.
Mapped(items) ==
    [i \in DOMAIN items |->
        [title |-> items[i].title, description |-> items[i].description,
         url |-> items[i].url, imageUrl |-> items[i].urlToImage,
         publishedAt |-> ParseDate(items[i].publishedAt)]]

\* Run r leaves the fetch at this step.
Fetches(r) == run[r].pc = "fetching" /\ run'[r].pc # "fetching"

\* C1: when a sync run that fetched N >= 1 articles has completed
\* successfully, the store holds exactly the N records mapped from that fetch
\* and nothing else.
C1_FullSnapshot ==
    \A r \in Runs :
        Replaced(r) => store = SeqToBag(Mapped(run[r].response.items))

\* C2: a sync run whose fetch returns 0 articles ends there, having called
\* neither deleteMany nor insertMany, with the store as it was; the manual
\* trigger answers 404.
C2_EmptyFetchIsNoOp ==
    [][\A r \in Runs :
          (Fetches(r) /\ run'[r].response = Articles(<<>>))
              => /\ run'[r].pc = "done"
                 /\ run'[r].ops = <<>>
                 /\ store' = store
                 /\ (r = "manual" => run'[r].status = 404)]_vars

C2_Witness ==
    /\ run["manual"].pc = "done"
    /\ run["manual"].response = Articles(<<>>)
    /\ run["manual"].status = 404
    /\ store # EmptyBag

\* A header that carries no bearer token: no header at all, or the scheme alone.
NoBearerToken(header) == ~header.present \/ header.text = <<"Bearer">>

\* C3: a POST /api/news without a bearer token is answered 401 without a call
\* of the verifier; one whose token fails verification is answered 403; in
\* both cases the handler is not invoked and nothing is written to the store.
C3_RejectedPost ==
    /\ [](post.pc = "done" =>
            /\ NoBearerToken(post.header)
                   => post.status = 401 /\ ~post.verifierCalled
            /\ (post.verifierCalled /\ ~post.handlerInvoked) => post.status = 403
            /\ post.token = <<"forged">> => post.status = 403
            /\ post.status \in {401, 403}
                   => ~post.handlerInvoked /\ ~post.wrote)
    /\ [][(post'.pc = "done" /\ post'.status \in {401, 403}
              /\ post' # post) => store' = store]_vars

C3_Witness ==
    /\ post.pc = "done"
    /\ post.token = <<"forged">>
    /\ post.status = 403
    /\ post.verifierCalled
    /\ ~post.handlerInvoked

\* C4: within one sync run insertMany is called only once that run's
\* deleteMany has completed: a run awaiting its insert, and a run that has
\* inserted, has its successful delete behind it.
C4_DeleteBeforeInsert ==
    \A r \in Runs :
        /\ run[r].pc = "inserting" => run[r].ops = <<Done("delete")>>
        /\ \A i \in DOMAIN run[r].ops :
              run[r].ops[i].op = "insert"
                  => i = 2 /\ run[r].ops[1] = Done("delete")

C4_Witness ==
    \E r \in Runs : Replaced(r) /\ run[r].response = Articles(<<Raw2, Raw1>>)

\* Run r's insert succeeds at this step.
Inserts(r) ==
    /\ run[r].pc = "inserting"
    /\ run'[r].ops = <<Done("delete"), Done("insert")>>

\* C5: when two sync runs overlap, each with a non-empty fetch, then once
\* both have finished the store holds exactly the articles of the run whose
\* insert completed last.
C5_LastInsertWins ==
    [][\A r \in Runs :
          (Replaced(Other(r)) /\ Inserts(r))
              => store' = SeqToBag(run'[r].latestNews)]_vars

\* C6: two sync runs can overlap, and when run A's delete is followed by run
\* B's insert and then by run A's insert, the store afterwards holds the
\* articles of both runs at once, not the snapshot of one.
C6_InterleavedRunsMix ==
    [][\A r \in Runs :
          (Replaced(Other(r)) /\ Inserts(r))
              => /\ (SeqToBag(run[Other(r)].latestNews)
                        (+) SeqToBag(run'[r].latestNews)) \sqsubseteq store'
                 /\ store' # SeqToBag(run'[r].latestNews)]_vars

C6_Witness ==
    /\ Replaced("manual")
    /\ run["manual"].latestNews = Mapped(<<Raw1>>)
    /\ run["cron"].pc = "idle"
    /\ store = SeqToBag(Mapped(<<Raw1>>)) (+) SeqToBag(Mapped(<<Raw2, Raw1>>))

HasArticles(resp) ==
    ~resp.threw /\ resp.data = "object" /\ resp.articles = "array"
        /\ Len(resp.items) >= 1

\* Run r starts at this step.
Starts(r) == run[r].pc \in {"idle", "done"} /\ run'[r].pc = "fetching"

\* C8 as stated: every sync run, at its start, destroys all the articles
\* that are in the store at that moment.
C8_DestroysAtStart ==
    [][\A r \in Runs : Starts(r) => store' = EmptyBag]_vars

\* C8 as amended: a sync run destroys nothing at its start nor when its fetch
\* returns; it reaches its delete exactly when the fetch returned one or more
\* articles, and that delete, when it succeeds, destroys every article the
\* store then holds, those created through POST /api/news included.
C8_DeleteDestroysAll ==
    [][\A r \in Runs :
          /\ Starts(r) => store' = store
          /\ Fetches(r)
                => /\ store' = store
                   /\ run'[r].pc = "deleting" <=> HasArticles(run'[r].response)
          /\ (run[r].pc = "deleting" /\ run'[r].ops = <<Done("delete")>>)
                => store' = EmptyBag]_vars

C8_Witness ==
    \E r \in Runs :
        /\ run[r].pc = "inserting"
        /\ last.who = r /\ last.op = "delete"
        /\ "manual" \in last.removed
        /\ store = EmptyBag

Failed(name) == [op |-> name, ok |-> FALSE]

\* C9: the manual and the scheduled trigger run the same routine: for either
\* trigger the documents to insert and the sequence of store operations are
\* the same function of the upstream response and of the outcomes of the
\* store operations.
C9_SameRoutine ==
    \A r \in Runs :
        run[r].pc \notin {"idle", "fetching"}
            => LET resp == run[r].response
                   ops == run[r].ops
               IN  /\ run[r].latestNews =
                         IF HasArticles(resp) THEN Mapped(resp.items) ELSE <<>>
                   /\ run[r].pc = "deleting" => HasArticles(resp) /\ ops = <<>>
                   /\ run[r].pc = "inserting"
                         => HasArticles(resp) /\ ops = <<Done("delete")>>
                   /\ run[r].pc = "done"
                         => IF HasArticles(resp)
                            THEN ops \in {<<Failed("delete")>>,
                                          <<Done("delete"), Failed("insert")>>,
                                          <<Done("delete"), Done("insert")>>}
                            ELSE ops = <<>>

C9_Witness ==
    /\ Replaced("cron")
    /\ run["cron"].response = Articles(<<Raw2, Raw1>>)
    /\ run["manual"].pc = "inserting"
    /\ run["manual"].response = run["cron"].response
    /\ run["manual"].latestNews = run["cron"].latestNews

\* A store operation of run r failed.
StoreFailure(r) == \E i \in DOMAIN run[r].ops : ~run[r].ops[i].ok

\* A 2xx answer whose body is not what the news API documents.
Malformed(resp) ==
    ~resp.threw /\ (resp.data = "null" \/ resp.articles # "array")

MalformedThrows(resp) ==
    ~resp.threw /\ (resp.data = "null" \/ resp.articles = "object")

CronFailed == run["cron"].log = "error"

\* C11: a failed scheduled run is caught and logged and changes nothing more;
\* it does not stop the scheduler: a tick starts a run again after it, every
\* scheduled run ends, and a scheduled run whose fetch returned articles and
\* whose store operations succeeded leaves its articles in the store.
C11_FailedRunIsRetried ==
    /\ [][(~CronFailed /\ CronFailed') => store' = store]_vars
    /\ CronFailed ~> (run["cron"].pc = "fetching")
    /\ (run["cron"].pc = "fetching") ~> (run["cron"].pc = "done")
    /\ [](Replaced("cron")
             => SeqToBag(Mapped(run["cron"].response.items)) \sqsubseteq store)

C11_Witness ==
    /\ CronFailed
    /\ run["cron"].ops = <<Failed("delete")>>
    /\ store # EmptyBag

\* C12: GET /api/news returns every article the store holds at the read,
\* each once per copy, newest publishedAt first, whatever order they were
\* inserted in: the answer is the store's content sorted in descending order.
C12_NewestFirst ==
    lastGet.status = 200
        => /\ SeqToBag(lastGet.body) = store
           /\ \A i, j \in DOMAIN lastGet.body :
                 i < j => lastGet.body[i].publishedAt >= lastGet.body[j].publishedAt

\* The article inserted last is the newest one and is returned first.
C12_Witness ==
    /\ lastGet.status = 200
    /\ Len(lastGet.body) = 2
    /\ lastGet.body[1].title = "one"
    /\ lastGet.body[2].title = "manual"
    /\ lastGet.body[1].publishedAt > lastGet.body[2].publishedAt
    /\ last.op = "insert"

\* Run r's delete succeeds at this step.
Deletes(r) == run[r].pc = "deleting" /\ run'[r].ops = <<Done("delete")>>

\* The verified POST /api/news saves its document at this step.
Saves == post.pc = "saving" /\ post.handlerInvoked /\ post'.wrote

\* A POST /api/news is refused at this step.
Refuses == post'.pc = "done" /\ post'.status \in {401, 403}

\* A step of POST /send-message.
Relays == msg'.pc = "done" \/ (msg'.pc = "sending" /\ msg.pc # "sending")

\* C13: articles enter the store only by a sync run's insertMany or by the
\* save of a POST /api/news whose token was verified, and leave it only by a
\* sync run's deleteMany, which removes them all; GET /api/news,
\* POST /send-message and a refused POST /api/news leave the store as it is,
\* and no step changes or removes a single stored article.
C13_StoreLifecycle ==
    [][/\ store' # store
             => \/ \E r \in Runs :
                      Inserts(r) /\ store' = store (+) SeqToBag(run[r].latestNews)
                \/ Saves /\ store' = store (+) SetToBag({post.doc})
                \/ \E r \in Runs : Deletes(r) /\ store' = EmptyBag
       /\ lastGet' # NoGet => store' = store
       /\ Relays => store' = store
       /\ Refuses => store' = store
       /\ store \sqsubseteq store' \/ store' = EmptyBag]_vars

C13_Witness ==
    /\ msg.pc = "done"
    /\ msg.status = 200
    /\ Titles(store) = {"manual", "one"}
    /\ BagCardinality(store) = 3

\* C14: a POST /api/news with a valid token whose save succeeds answers 201
\* and adds exactly one record, with the title, description, url and
\* imageUrl of the request and publishedAt the time of the call; a
\* GET /api/news that follows it returns that record.
C14_VerifiedPostCreates ==
    [][/\ Saves
             => /\ post.token = <<"valid">>
                /\ post'.status = 201
                /\ store' = store (+) SetToBag({post.doc})
                /\ \E body \in Bodies :
                      post.doc = [title |-> body.title,
                                  description |-> body.description,
                                  url |-> body.url, imageUrl |-> body.imageUrl,
                                  publishedAt |-> now]
       /\ (post.pc = "done" /\ post.status = 201 /\ lastGet'.status = 200)
             => \E i \in DOMAIN lastGet'.body : lastGet'.body[i] = post.doc]_vars

C14_Witness ==
    /\ post.pc = "done"
    /\ post.status = 201
    /\ post.doc.publishedAt = MaxClock
    /\ post.doc \in BagToSet(store)
    /\ BagCardinality(store) >= 2

\* A field of the contact form that is empty or absent.
Blank(field) == field = Field(FALSE, "") \/ field = Field(TRUE, "")

\* C15: a POST /send-message with name, email or message empty or absent is
\* answered 400 without a call of the mail relay; with all three present the
\* relay is called exactly once, never again, and the answer is 200 if the
\* delivery succeeded and 500 if it failed.
C15_ContactForm ==
    LET incomplete == Blank(msg.body.name) \/ Blank(msg.body.email)
                          \/ Blank(msg.body.message)
    IN  /\ msg.relayCalls <= 1
        /\ msg.pc = "sending" => ~incomplete /\ msg.relayCalls = 1
        /\ msg.pc = "done"
              => IF incomplete
                 THEN msg.status = 400 /\ msg.relayCalls = 0
                 ELSE /\ msg.relayCalls = 1
                      /\ msg.status = IF msg.delivered THEN 200 ELSE 500

C15_Witness ==
    /\ msg.pc = "done"
    /\ msg.status = 500
    /\ msg.relayCalls = 1
    /\ ~msg.delivered

\* Run r's insert fails at this step.
InsertFails(r) ==
    /\ run[r].pc = "inserting"
    /\ run'[r].ops = <<Done("delete"), Failed("insert")>>

\* C16: when a sync run's delete has succeeded and its insert fails, nothing
\* is rolled back: the failing step leaves the store as the delete and any
\* later writer left it, so with no write since a delete the store stays
\* empty and the articles the delete removed are gone; the manual trigger
\* answers 500 and the scheduled one only logs the error.
C16_NoRollback ==
    [][\A r \in Runs :
          InsertFails(r)
              => /\ run'[r].pc = "done"
                 /\ store' = store
                 /\ last.op = "delete"
                       => /\ store' = EmptyBag
                          /\ last.removed \cap Titles(store') = {}
                 /\ IF r = "manual"
                    THEN /\ run'[r].status = 500
                         /\ run'[r].reply = "Failed to fetch news"
                    ELSE /\ run'[r].status = 0
                         /\ run'[r].log = "error"]_vars

C16_Witness ==
    \E r \in Runs :
        /\ run[r].pc = "done"
        /\ run[r].ops = <<Done("delete"), Failed("insert")>>
        /\ last = Op(r, "delete", {"one", "two"})
        /\ store = EmptyBag

\* C17: when the fetch of a sync run fails (the request rejects: a network
\* error or an HTTP error status), the run ends there without a call of
\* deleteMany or insertMany; neither its start nor the failing step changes
\* the store, and what remains of the run changes nothing either.
C17_FailedFetchTouchesNothing ==
    [][\A r \in Runs :
          /\ Starts(r) => store' = store
          /\ (Fetches(r) /\ run'[r].response.threw)
                => /\ run'[r].pc = "done"
                   /\ run'[r].ops = <<>>
                   /\ store' = store
          /\ (run[r].pc = "done" /\ run[r].response.threw)
                => run'[r].pc \in {"idle", "fetching"}]_vars

C17_Witness ==
    /\ run["manual"].pc = "done"
    /\ run["manual"].response = NetworkError
    /\ run["manual"].ops = <<>>
    /\ BagCardinality(store) = 2

\* The status of the response a request record shows: 0 while none was sent.
Answered(rec, statuses) ==
    IF rec.pc = "done" THEN rec.status \in statuses ELSE rec.status = 0

====
